---- MODULE Spec2Model ----
(***************************************************************************)
(* Model of src/project.py: GithubSpider, a two-stage crawl.                *)
(*   parse            listing page  -> detail requests + pagination request *)
(*   parse_repo_page  detail page   -> one finalized GithubRepoItem         *)
(*                                                                         *)
(* Python values are represented as follows.                               *)
(*   str          sequence of one-character strings, "" is <<>>             *)
(*   None / value None is <<>>, a value v is Some(v) = <<v>>                *)
(*   dict         sequence of <<key, value>> pairs in insertion order       *)
(*   Item         function from the names of the fields that are set        *)
(*   object       index into heap (identity of a GithubRepoItem)            *)
(***************************************************************************)
EXTENDS Integers, Sequences, FiniteSets, Bags, TLC

VARIABLES pc, inp, res, heap, pending, emitted, listed

vars == <<pc, inp, res, heap, pending, emitted, listed>>

(***************************************************************************)
(* Bounds                                                                  *)
(***************************************************************************)
MaxText == 3
MaxLangs == 2
MaxEntries == 2
MaxPages == 2

(***************************************************************************)
(* Python values                                                           *)
(***************************************************************************)
None == <<>>
Some(v) == <<v>>

\* truth value of an Optional[str]: None and "" are false
Truthy(o) == o /= None /\ o[1] /= <<>>

SeqUpTo(S, n) == UNION {[1..k -> S] : k \in 0..n}

IsSpace(c) == c = " "

RECURSIVE LStrip(_)
LStrip(s) == IF s /= <<>> /\ IsSpace(Head(s)) THEN LStrip(Tail(s)) ELSE s

RECURSIVE RStrip(_)
RStrip(s) ==
    IF s /= <<>> /\ IsSpace(s[Len(s)]) THEN RStrip(SubSeq(s, 1, Len(s) - 1)) ELSE s

\* str.strip()
Strip(s) == RStrip(LStrip(s))

IsComma(c) == c = ","
NotComma(c) == ~IsComma(c)

\* str.replace(',', '')
RemoveCommas(s) == SelectSeq(s, NotComma)

Digits == {"0", "1", "2", "3", "4", "5", "6", "7", "8", "9"}
IsDigit(c) == c \in Digits

DigitVal(c) ==
    CASE c = "0" -> 0 [] c = "1" -> 1 [] c = "2" -> 2 [] c = "3" -> 3
      [] c = "4" -> 4 [] c = "5" -> 5 [] c = "6" -> 6 [] c = "7" -> 7
      [] c = "8" -> 8 [] c = "9" -> 9

RECURSIVE DigitsValue(_)
DigitsValue(d) ==
    IF d = <<>> THEN 0
    ELSE 10 * DigitsValue(SubSeq(d, 1, Len(d) - 1)) + DigitVal(d[Len(d)])

AllDigits(d) == d /= <<>> /\ \A i \in 1..Len(d) : IsDigit(d[i])

\* int(str): surrounding whitespace is ignored, one optional sign, then
\* decimal digits; anything else is a ValueError (ok = FALSE).  Integers are
\* unbounded.  The underscore digit separator is outside the alphabet used.
PyInt(s) ==
    LET t == Strip(s)
        signed == t /= <<>> /\ Head(t) \in {"-", "+"}
        d == IF signed THEN Tail(t) ELSE t
    IN  IF AllDigits(d)
        THEN [ok |-> TRUE,
              val |-> IF signed /\ Head(t) = "-" THEN 0 - DigitsValue(d)
                      ELSE DigitsValue(d)]
        ELSE [ok |-> FALSE, val |-> 0]

(***************************************************************************)
(* parse_repo_page: commit count (lines 177-198)                           *)
(***************************************************************************)
\* lines 183-185: the alternate selector is tried when the first is falsy
SelectCommitText(primary, alt) == IF Truthy(primary) THEN primary ELSE alt

ConvertCommitCountUncaught(text) ==
    LET r == PyInt(RemoveCommas(Strip(text)))
    IN  IF r.ok THEN [raised |-> FALSE, num_commits |-> Some(r.val)]
        ELSE [raised |-> TRUE, num_commits |-> None]

\* lines 189-195: try: int(strip().replace(',', '')) except ValueError: None
ConvertCommitCount(text) ==
    LET r == PyInt(RemoveCommas(Strip(text)))
    IN  IF r.ok THEN [raised |-> FALSE, num_commits |-> Some(r.val)]
        ELSE [raised |-> FALSE, num_commits |-> None]

\* lines 183-198
ExtractCommits(primary, alt) ==
    LET commit_count_text == SelectCommitText(primary, alt)
    IN  IF Truthy(commit_count_text)
        THEN ConvertCommitCount(commit_count_text[1])
        ELSE [raised |-> FALSE, num_commits |-> None]

(***************************************************************************)
(* parse_repo_page: languages (lines 158-175)                              *)
(***************************************************************************)
HasKey(d, k) == \E i \in 1..Len(d) : d[i][1] = k

\* d[k] = v on an insertion-ordered dict
DictSet(d, k, v) ==
    IF HasKey(d, k)
    THEN [i \in 1..Len(d) |-> IF d[i][1] = k THEN <<k, v>> ELSE d[i]]
    ELSE Append(d, <<k, v>>)

Min(a, b) == IF a < b THEN a ELSE b

\* zip(lang_names, lang_percs)
Zip(a, b) == [i \in 1..Min(Len(a), Len(b)) |-> <<a[i], b[i]>>]

\* lines 168-170: the loop over the zipped pairs
RECURSIVE FillLanguages(_, _)
FillLanguages(pairs, languages) ==
    IF pairs = <<>> THEN languages
    ELSE LET name == Head(pairs)[1]
             perc == Head(pairs)[2]
         IN  FillLanguages(Tail(pairs),
                 IF name /= <<>> /\ perc /= <<>>
                 THEN DictSet(languages, Strip(name), Strip(perc))
                 ELSE languages)

ExtractLanguagesKeepEmpty(lang_names, lang_percs) ==
    IF lang_names /= <<>> /\ lang_percs /= <<>> /\ Len(lang_names) = Len(lang_percs)
    THEN Some(FillLanguages(Zip(lang_names, lang_percs), <<>>))
    ELSE None

\* lines 159-175: the value stored in item['languages']
ExtractLanguages(lang_names, lang_percs) ==
    IF lang_names /= <<>> /\ lang_percs /= <<>> /\ Len(lang_names) = Len(lang_percs)
    THEN LET languages == FillLanguages(Zip(lang_names, lang_percs), <<>>)
         IN  IF languages /= <<>> THEN Some(languages) ELSE None
    ELSE None

(***************************************************************************)
(* Inputs of the extraction steps                                          *)
(***************************************************************************)
CommitAlphabet == {"1", "2", ",", " ", "-", "x"}
CommitTexts == SeqUpTo(CommitAlphabet, MaxText) \ {<<>>}
AltCommitTexts == {<<"7">>, <<"x">>, <<" ", "3", ",", "4">>}
OptOf(S) == {None} \cup {Some(s) : s \in S}

LangNameTexts == {<<>>, <<" ">>, <<"a">>, <<" ", "a">>, <<"b">>}
LangPercTexts == {<<>>, <<" ">>, <<"5">>, <<"6", " ">>}

NoCrawl ==
    /\ heap = <<>>
    /\ pending = <<>>
    /\ emitted = EmptyBag
    /\ listed = [pages |-> 0, valid |-> 0]

(***************************************************************************)
(* SpecCommit: the commit-count extraction applied to every matched text   *)
(***************************************************************************)
InitCommit ==
    /\ pc = "commit"
    /\ inp \in [primary : OptOf(CommitTexts \cup {<<>>}), alt : OptOf(AltCommitTexts)]
    /\ res = None
    /\ NoCrawl

CommitStep ==
    /\ pc = "commit"
    /\ res' = ExtractCommits(inp.primary, inp.alt)
    /\ pc' = "commit_done"
    /\ UNCHANGED <<inp, heap, pending, emitted, listed>>

NextCommit == CommitStep

SpecCommit == InitCommit /\ [][NextCommit]_vars

(***************************************************************************)
(* SpecLang: the language extraction applied to every pair of lists        *)
(***************************************************************************)
InitLang ==
    /\ pc = "lang"
    /\ inp \in [names : SeqUpTo(LangNameTexts, MaxLangs),
                percs : SeqUpTo(LangPercTexts, MaxLangs)]
    /\ res = None
    /\ NoCrawl

LangStep ==
    /\ pc = "lang"
    /\ res' = [languages |-> ExtractLanguages(inp.names, inp.percs)]
    /\ pc' = "lang_done"
    /\ UNCHANGED <<inp, heap, pending, emitted, listed>>

NextLang == LangStep

SpecLang == InitLang /\ [][NextLang]_vars

(***************************************************************************)
(* URLs.  An absolute URL is [host, path, query]; an href attribute is     *)
(* [host, rooted, path, query], where host "" means no scheme://host part, *)
(* rooted says the path starts with "/", and query "" means no query.      *)
(***************************************************************************)
Url(host, path, query) == [host |-> host, path |-> path, query |-> query]
Href(host, rooted, path, query) ==
    [host |-> host, rooted |-> rooted, path |-> path, query |-> query]

\* the attribute value ""
EmptyHref == Href("", FALSE, <<>>, "")

\* truth value of an Optional[str] holding an href
TruthyHref(o) == o /= None /\ o[1] /= EmptyHref

Front(s) == SubSeq(s, 1, Len(s) - 1)

\* response.urljoin(href) / response.follow(href): RFC 3986 reference
\* resolution, without dot segments
UrlJoin(base, h) ==
    IF h.host /= "" THEN Url(h.host, h.path, h.query)
    ELSE IF h.rooted THEN Url(base.host, h.path, h.query)
    ELSE IF h.path = <<>>
         THEN Url(base.host, base.path,
                  IF h.query /= "" THEN h.query ELSE base.query)
         ELSE Url(base.host,
                  (IF base.path = <<>> THEN <<>> ELSE Front(base.path)) \o h.path,
                  h.query)

(***************************************************************************)
(* Items                                                                   *)
(***************************************************************************)
\* item[f] = v
SetField(item, f, v) ==
    [g \in DOMAIN item \cup {f} |-> IF g = f THEN v ELSE item[g]]

\* del item[f]
DelField(item, f) == [g \in DOMAIN item \ {f} |-> item[g]]

(***************************************************************************)
(* parse (lines 60-140)                                                    *)
(***************************************************************************)
\* lines 106-112: description with its fallback selector
ExtractAbout(about1, about2) ==
    LET about_text == IF Truthy(about1) THEN about1 ELSE about2
    IN  IF Truthy(about_text) THEN Some(Strip(about_text[1])) ELSE None

\* lines 101-117: the fields parse sets on the item of one entry
NewItem(entry, base) ==
    [repo_name |-> Strip(entry.name[1]),
     url |-> UrlJoin(base, entry.href[1]),
     about |-> ExtractAbout(entry.about1, entry.about2),
     last_updated |-> entry.time]

\* lines 90-99: the two skip conditions of the loop body
SkipEntry(entry) ==
    \/ ~entry.has_link
    \/ ~Truthy(entry.name)
    \/ ~TruthyHref(entry.href)

DetailRequest(url, id) == [url |-> url, callback |-> "parse_repo_page", item |-> id]
ListingRequest(url) == [url |-> url, callback |-> "parse", item |-> 0]

RECURSIVE ParseEntriesBreak(_, _, _)
ParseEntriesBreak(entries, base, acc) ==
    IF entries = <<>> THEN acc
    ELSE IF SkipEntry(Head(entries)) THEN acc
    ELSE LET item == NewItem(Head(entries), base)
             id == Len(acc.heap) + 1
         IN  ParseEntriesBreak(Tail(entries), base,
                 [heap |-> Append(acc.heap, item),
                  out |-> Append(acc.out, DetailRequest(item.url, id))])

RECURSIVE ParseEntriesShared(_, _, _)
ParseEntriesShared(entries, base, acc) ==
    IF entries = <<>> THEN acc
    ELSE IF SkipEntry(Head(entries)) THEN ParseEntriesShared(Tail(entries), base, acc)
    ELSE LET item == NewItem(Head(entries), base)
             first == acc.out = <<>>
             id == IF first THEN Len(acc.heap) + 1 ELSE acc.out[1].item
         IN  ParseEntriesShared(Tail(entries), base,
                 [heap |-> IF first THEN Append(acc.heap, item)
                           ELSE [acc.heap EXCEPT ![id] = item],
                  out |-> Append(acc.out, DetailRequest(item.url, id))])

\* lines 83-125: the loop over the repository entries.  Each iteration
\* creates its own GithubRepoItem; the item of a skipped entry is referenced
\* by nothing and is not kept in the heap.
RECURSIVE ParseEntries(_, _, _)
ParseEntries(entries, base, acc) ==
    IF entries = <<>> THEN acc
    ELSE IF SkipEntry(Head(entries)) THEN ParseEntries(Tail(entries), base, acc)
    ELSE LET item == NewItem(Head(entries), base)
             id == Len(acc.heap) + 1
         IN  ParseEntries(Tail(entries), base,
                 [heap |-> Append(acc.heap, item),
                  out |-> Append(acc.out, DetailRequest(item.url, id))])

ParsePaginateIfFound(h, response) ==
    LET r == ParseEntries(response.entries, response.url, [heap |-> h, out |-> <<>>])
    IN  IF response.next /= None /\ r.out /= <<>>
        THEN [heap |-> r.heap,
              out |-> Append(r.out, ListingRequest(UrlJoin(response.url, response.next[1])))]
        ELSE r

\* lines 60-140: the requests parse yields, in order, and the heap after it
Parse(h, response) ==
    LET r == ParseEntries(response.entries, response.url, [heap |-> h, out |-> <<>>])
    IN  IF response.next /= None
        THEN [heap |-> r.heap,
              out |-> Append(r.out, ListingRequest(UrlJoin(response.url, response.next[1])))]
        ELSE r

(***************************************************************************)
(* parse_repo_page (lines 143-218)                                         *)
(***************************************************************************)
IsEmptyProxyOr(item) == item.languages = None \/ item.num_commits = None

\* line 202
IsEmptyProxy(item) == item.languages = None /\ item.num_commits = None

ApplyAboutRuleAlways(item) ==
    IF ~IsEmptyProxy(item) THEN SetField(item, "about", Some(item.repo_name))
    ELSE item

\* lines 206-208
ApplyAboutRule(item) ==
    IF ~Truthy(item.about) /\ ~IsEmptyProxy(item)
    THEN SetField(item, "about", Some(item.repo_name))
    ELSE item

FinalizeKeep(item) == item

\* lines 214-215
Finalize(item) == DelField(item, "repo_name")

\* lines 143-218: the heap after the handler, the items it yields, and
\* whether an exception left it.  item['repo_name'] is first read at line
\* 172/175, after item['languages'] is stored; an item without the field
\* raises KeyError there.
ParseRepoPage(h, id, response) ==
    LET item1 == SetField(h[id], "languages",
                     ExtractLanguages(response.lang_names, response.lang_percs))
        c == ExtractCommits(response.commit, response.commit_alt)
    IN  IF "repo_name" \notin DOMAIN h[id] \/ c.raised
        THEN [heap |-> [h EXCEPT ![id] = item1], out |-> <<>>, raised |-> TRUE]
        ELSE LET item2 == SetField(item1, "num_commits", c.num_commits)
                 item3 == ApplyAboutRule(item2)
                 item4 == Finalize(item3)
             IN  [heap |-> [h EXCEPT ![id] = item4], out |-> <<id>>, raised |-> FALSE]

(***************************************************************************)
(* Inputs of the handlers                                                  *)
(***************************************************************************)
BaseUrls == {Url("g", <<"u">>, "tab"), Url("g", <<"u", "p">>, "")}

NameTexts == {None, Some(<<" ">>), Some(<<" ", "r">>)}
EntryHrefs ==
    {None, Some(EmptyHref), Some(Href("", TRUE, <<"u", "r1">>, "")),
     Some(Href("", FALSE, <<"r2">>, "")), Some(Href("h", TRUE, <<"x">>, ""))}
NextHrefs == {None, Some(EmptyHref), Some(Href("", FALSE, <<>>, "page2"))}

Entry(has_link, name, href, about1, about2, time) ==
    [has_link |-> has_link, name |-> name, href |-> href,
     about1 |-> about1, about2 |-> about2, time |-> time]

\* entries of a listing page: no link element; every combination of name
\* and href; every combination of the description selectors on a named,
\* linked entry
ListingEntries ==
    {Entry(FALSE, None, None, None, None, None)}
    \cup {Entry(TRUE, n, h, None, None, None) : n \in NameTexts, h \in EntryHrefs}
    \cup {Entry(TRUE, Some(<<" ", "r">>), Some(Href("", TRUE, <<"u", "r1">>, "")),
                a1, a2, Some(<<"t">>)) :
            a1 \in {None, Some(<<" ">>), Some(<<" ", "d", " ">>)},
            a2 \in {None, Some(<<"e">>)}}

Page(url, entries, next) == [url |-> url, entries |-> entries, next |-> next]

\* partial records parse can produce
DetailItems ==
    {NewItem(e, b) : e \in {x \in ListingEntries : ~SkipEntry(x)}, b \in BaseUrls}

DetailLangs ==
    {<<<<>>, <<>>>>, <<<<<<"a">>>>, <<<<"5">>>>>>, <<<<<<"a">>>>, <<>>>>,
     <<<<<<>>>>, <<<<"5">>>>>>}
DetailCommits == {None, Some(<<" ">>), Some(<<"x">>), Some(<<"1", ",", "2">>)}
DetailAltCommits == {None, Some(<<"x">>), Some(<<"3">>)}

DetailResponse(l, c, a) ==
    [lang_names |-> l[1], lang_percs |-> l[2], commit |-> c, commit_alt |-> a]

DetailResponses ==
    {DetailResponse(l, c, a) : l \in DetailLangs, c \in DetailCommits, a \in DetailAltCommits}

(***************************************************************************)
(* SpecListing: parse applied to one listing page                          *)
(***************************************************************************)
InitListing ==
    /\ pc = "listing"
    /\ \E u \in BaseUrls, es \in SeqUpTo(ListingEntries, MaxEntries), n \in NextHrefs :
          inp = Page(u, es, n)
    /\ res = None
    /\ NoCrawl

ListingStep ==
    /\ pc = "listing"
    /\ res' = Parse(<<>>, inp)
    /\ pc' = "listing_done"
    /\ UNCHANGED <<inp, heap, pending, emitted, listed>>

NextListing == ListingStep

SpecListing == InitListing /\ [][NextListing]_vars

(***************************************************************************)
(* SpecDetail: parse_repo_page applied to one detail page and its item     *)
(***************************************************************************)
InitDetail ==
    /\ pc = "detail"
    /\ \E it \in DetailItems, r \in DetailResponses : inp = [item |-> it, response |-> r]
    /\ res = None
    /\ NoCrawl

DetailStep ==
    /\ pc = "detail"
    /\ res' = ParseRepoPage(<<inp.item>>, 1, inp.response)
    /\ pc' = "detail_done"
    /\ UNCHANGED <<inp, heap, pending, emitted, listed>>

NextDetail == DetailStep

SpecDetail == InitDetail /\ [][NextDetail]_vars

(***************************************************************************)
(* Spec: the crawl.  pending holds the requests the engine has not yet     *)
(* delivered, in the order they were yielded; the engine delivers any one  *)
(* of them, once, to its callback, with the page the site answers.  The    *)
(* site is a chain of at most MaxPages listing pages.  emitted is the bag   *)
(* of items handed to the exporter.  listed counts the                     *)
(* listing pages delivered and the entries on them that had both a name    *)
(* and a link.                                                             *)
(***************************************************************************)
StartUrl == Url("g", <<"u">>, "tab")

HasNameAndLink(e) == e.has_link /\ Truthy(e.name) /\ TruthyHref(e.href)

\* an entry with name and link, and an entry without a name
CrawlEntries ==
    {Entry(TRUE, Some(<<" ", "r">>), Some(Href("", TRUE, <<"u", "r1">>, "")),
           None, None, None),
     Entry(TRUE, None, Some(Href("", TRUE, <<"u", "r1">>, "")), None, None, None)}
CrawlNext == {None, Some(Href("", FALSE, <<>>, "page2"))}
CrawlResponses ==
    {DetailResponse(<<<<>>, <<>>>>, None, None),
     DetailResponse(<<<<<<"a">>>>, <<<<"5">>>>>>, Some(<<"1", ",", "2">>), None)}

\* the items a handler yielded, as handed to the exporter
Yielded(out) == SetToBag({out[k] : k \in 1..Len(out)})

RemoveAt(s, i) == SubSeq(s, 1, i - 1) \o SubSeq(s, i + 1, Len(s))

Init ==
    /\ pc = "crawl"
    /\ inp = None
    /\ res = None
    /\ heap = <<>>
    /\ pending = <<ListingRequest(StartUrl)>>
    /\ emitted = EmptyBag
    /\ listed = [pages |-> 0, valid |-> 0]

\* the engine delivers a listing response to parse
DeliverListing ==
    \E i \in 1..Len(pending), es \in SeqUpTo(CrawlEntries, MaxEntries), n \in CrawlNext :
        /\ pc = "crawl"
        /\ pending[i].callback = "parse"
        /\ listed.pages + 1 >= MaxPages => n = None
        /\ LET r == Parse(heap, Page(pending[i].url, es, n))
           IN  /\ heap' = r.heap
               /\ pending' = RemoveAt(pending, i) \o r.out
        /\ listed' = [pages |-> listed.pages + 1,
                      valid |-> listed.valid + Len(SelectSeq(es, HasNameAndLink))]
        /\ UNCHANGED <<pc, inp, res, emitted>>

\* the engine delivers a detail response, with the request's item, to
\* parse_repo_page; what it yields goes to the exporter
DeliverDetail ==
    \E i \in 1..Len(pending), r \in CrawlResponses :
        /\ pc = "crawl"
        /\ pending[i].callback = "parse_repo_page"
        /\ LET d == ParseRepoPage(heap, pending[i].item, r)
           IN  /\ heap' = d.heap
               /\ emitted' = emitted (+) Yielded(d.out)
        /\ pending' = RemoveAt(pending, i)
        /\ UNCHANGED <<pc, inp, res, listed>>

Next == DeliverListing \/ DeliverDetail

Spec == Init /\ [][Next]_vars

\* the engine runs until no request is pending
FairSpec == Spec /\ WF_vars(Next)

(***************************************************************************)
(* Properties                                                              *)
(***************************************************************************)
IsDetail(r) == r.callback = "parse_repo_page"
IsListing(r) == r.callback = "parse"

\* C1: parse emits exactly one detail request per entry that has both a
\* non-empty name and a non-empty link, in entry order; its target is the
\* link resolved against the page URL and the carried item holds that URL;
\* entries without name or link emit nothing and do not stop later entries.
C1_OneDetailRequestPerValidEntry ==
    pc = "listing_done" =>
        LET valid == SelectSeq(inp.entries, HasNameAndLink)
            det == SelectSeq(res.out, IsDetail)
        IN  /\ Len(det) = Len(valid)
            /\ \A i \in 1..Len(det) :
                  /\ det[i].url = UrlJoin(inp.url, valid[i].href[1])
                  /\ det[i].item \in 1..Len(res.heap)
                  /\ res.heap[det[i].item].url = det[i].url

C1_Witness ==
    /\ pc = "listing_done"
    /\ Len(inp.entries) = 2
    /\ inp.entries[1].has_link
    /\ ~HasNameAndLink(inp.entries[1])
    /\ HasNameAndLink(inp.entries[2])
    /\ ~inp.entries[2].href[1].rooted
    /\ Len(SelectSeq(res.out, IsDetail)) = 1

\* C2: parse emits exactly one pagination request, to parse itself, when
\* the page has a next-page link and none otherwise, whatever the entries;
\* the pagination request comes after all detail requests of the page.
C2_OnePaginationRequestLast ==
    pc = "listing_done" =>
        LET pag == SelectSeq(res.out, IsListing)
        IN  IF inp.next /= None
            THEN /\ Len(pag) = 1
                 /\ pag[1].url = UrlJoin(inp.url, inp.next[1])
                 /\ IsListing(res.out[Len(res.out)])
                 /\ \A i \in 1..(Len(res.out) - 1) : IsDetail(res.out[i])
            ELSE pag = <<>>

C2_Witness ==
    /\ pc = "listing_done"
    /\ inp.next /= None
    /\ inp.entries /= <<>>
    /\ \A i \in 1..Len(inp.entries) : ~HasNameAndLink(inp.entries[i])
    /\ Len(res.out) = 1
    /\ IsListing(res.out[1])

\* C3: parse_repo_page replaces the description by the display name exactly
\* when the carried description is empty or missing and languages or
\* num_commits is present; with an empty or missing description and both
\* absent the description stays as carried, without text.
C3_AboutFallbackRule ==
    pc = "detail_done" =>
        /\ res.out = <<1>>
        /\ LET final == res.heap[1]
               empty == ~Truthy(inp.item.about)
               proxy == final.languages = None /\ final.num_commits = None
           IN  /\ (empty /\ ~proxy) => final.about = Some(inp.item.repo_name)
               /\ ~(empty /\ ~proxy) => final.about = inp.item.about
               /\ (empty /\ proxy) => ~Truthy(final.about)

C3_Witness ==
    /\ pc = "detail_done"
    /\ inp.item.about = Some(<<>>)
    /\ res.heap[1].languages /= None
    /\ res.heap[1].num_commits = None
    /\ res.heap[1].about = Some(<<"r">>)

\* C4: no emitted record has a repo_name field, and the item carried by
\* every pending detail request has one.
C4_RepoNameNeverEmitted ==
    /\ \A id \in BagToSet(emitted) : "repo_name" \notin DOMAIN heap[id]
    /\ \A i \in 1..Len(pending) :
          IsDetail(pending[i]) => "repo_name" \in DOMAIN heap[pending[i].item]

C4_Witness ==
    /\ emitted /= EmptyBag
    /\ \E i \in 1..Len(pending) : IsDetail(pending[i])

ValidAfterTrim(p) == Strip(p[1]) /= <<>> /\ Strip(p[2]) /= <<>>

\* C5: for non-empty lists of equal length the languages mapping has
\* exactly one entry per pair whose name and percentage are both non-empty
\* after trimming, in encounter order, trimmed name to trimmed percentage.
C5_OneEntryPerValidPair ==
    (pc = "lang_done" /\ inp.names /= <<>> /\ Len(inp.names) = Len(inp.percs)) =>
        LET valid == SelectSeq(Zip(inp.names, inp.percs), ValidAfterTrim)
            entries == IF res.languages = None THEN <<>> ELSE res.languages[1]
        IN  entries = [i \in 1..Len(valid) |-> <<Strip(valid[i][1]), Strip(valid[i][2])>>]

\* C6: num_commits is absent or a non-negative integer, the number written
\* by the digits of the matched text once stripped and without commas.
C6_NumCommitsNonNegative ==
    (pc = "commit_done" /\ res.num_commits /= None) =>
        LET matched == IF Truthy(inp.primary) THEN inp.primary[1] ELSE inp.alt[1]
        IN  /\ res.num_commits[1] >= 0
            /\ res.num_commits[1] = DigitsValue(SelectSeq(matched, IsDigit))

\* C7: a non-empty carried description is left unchanged whether or not
\* languages and num_commits are present; url and last_updated are never
\* changed by parse_repo_page.
C7_DescriptionAndListingFieldsKept ==
    pc = "detail_done" =>
        /\ res.out = <<1>>
        /\ Truthy(inp.item.about) => res.heap[1].about = inp.item.about
        /\ res.heap[1].url = inp.item.url
        /\ res.heap[1].last_updated = inp.item.last_updated

C7_Witness ==
    /\ pc = "detail_done"
    /\ Truthy(inp.item.about)
    /\ res.heap[1].languages /= None
    /\ res.heap[1].about = inp.item.about
    /\ res.heap[1].about /= Some(inp.item.repo_name)

\* C8: when the matched commit text (first selector, else the alternate)
\* is not an integer after cleaning, or nothing is matched, num_commits is
\* absent, no exception leaves the handler and the record is still emitted.
C8_UnparseableCommitsAbsent ==
    pc = "detail_done" =>
        LET r == inp.response
            matched == IF Truthy(r.commit) THEN r.commit ELSE r.commit_alt
            unparseable ==
                Truthy(matched) /\ ~PyInt(RemoveCommas(Strip(matched[1]))).ok
        IN  (unparseable \/ ~Truthy(matched)) =>
                /\ ~res.raised
                /\ res.out = <<1>>
                /\ res.heap[1].num_commits = None

C8_Witness ==
    /\ pc = "detail_done"
    /\ inp.response.commit = None
    /\ inp.response.commit_alt = Some(<<"x">>)
    /\ ~res.raised
    /\ res.out = <<1>>
    /\ res.heap[1].num_commits = None

NoPairHasBoth(names, percs) ==
    \A i \in 1..Len(names) : i \in 1..Len(percs) => (names[i] = <<>> \/ percs[i] = <<>>)

DetailItemsOf(reqs) == {reqs[i].item : i \in {j \in 1..Len(reqs) : IsDetail(reqs[j])}}
NumDetail(reqs) == Len(SelectSeq(reqs, IsDetail))

C10_ExactlyOnce ==
    /\ \A i, j \in 1..Len(pending) :
          (i /= j /\ IsDetail(pending[i]) /\ IsDetail(pending[j]))
              => pending[i].item /= pending[j].item
    /\ \A id \in BagToSet(emitted) : CopiesIn(id, emitted) = 1
    /\ \A id \in BagToSet(emitted) : id \notin DetailItemsOf(pending)
    /\ BagCardinality(emitted) + NumDetail(pending) = listed.valid

C10_Frozen ==
    \A id \in BagToSet(emitted) :
        /\ CopiesIn(id, emitted') >= CopiesIn(id, emitted)
        /\ heap'[id] = heap[id]

\* C10: with every request delivered once, each detail request yields one
\* record, no two requests carry the same item, an emitted record never
\* changes, and eventually nothing is pending and the records emitted are
\* as many as the listing entries that had both a name and a link.
C10_CrawlCompletes ==
    /\ []C10_ExactlyOnce
    /\ [][C10_Frozen]_vars
    /\ <>[](pending = <<>> /\ BagCardinality(emitted) = listed.valid)

C10_Witness ==
    /\ pending = <<>>
    /\ listed.pages = 2
    /\ BagCardinality(emitted) = 3
    /\ listed.valid = 3

====
